---- MODULE Spec2Model ----
(***************************************************************************)
(* Upload/result controller of the BOM extractor (src/static/js/main.js).  *)
(*                                                                         *)
(* The page state is the module-level variable currentFiles plus the       *)
(* properties of the DOM elements the script writes.  Every event listener *)
(* of the script is one action; the async submit listener is split at its  *)
(* two await points (fetch, response.json) into three actions.             *)
(***************************************************************************)
EXTENDS Integers, Sequences, FiniteSets, TLC

VARIABLES
    currentFiles,     \* main.js:13   null or the accepted FileList
    fileName,         \* #fileName.textContent
    hasFile,          \* .file-upload-label has class 'has-file'
    dragOver,         \* .file-upload-label has class 'drag-over'
    uploadSection,    \* #uploadSection.style.display
    resultsSection,   \* #resultsSection.style.display
    errorSection,     \* #errorSection.style.display
    errorMessage,     \* #errorMessage.textContent
    submitDisabled,   \* #submitBtn.disabled
    btnText,          \* .btn-text style.display
    btnLoader,        \* .btn-loader style.display
    totalItems,       \* #totalItems.textContent
    bomTypeDisplay,   \* #bomTypeDisplay.textContent
    documentTitle,    \* #documentTitle.textContent
    dataTable,        \* #dataTable.innerHTML
    downloadJson,     \* #downloadJson.onclick  (the files object it closes over)
    downloadCsv,      \* #downloadCsv.onclick
    bomType,          \* #bomType.value         (form control)
    fileInput,        \* #fileInput.files       (form control)
    pending,          \* suspended invocations of the submit listener
    last,             \* history: the listener that ran last and how it ended
    nRequests,        \* history: number of fetch('/upload') calls made
    nSubmitsWithFile, \* history: number of submit events with a selection
    displayed         \* history: results rendered so far, files of the latest

vars == << currentFiles, fileName, hasFile, dragOver, uploadSection,
           resultsSection, errorSection, errorMessage, submitDisabled,
           btnText, btnLoader, totalItems, bomTypeDisplay, documentTitle,
           dataTable, downloadJson, downloadCsv, bomType, fileInput,
           pending, last, nRequests, nSubmitsWithFile, displayed >>

-----------------------------------------------------------------------------
(* Bounds of the model *)

\* submit events that reach fetch, per run
MaxSubmits == 2

\* items in one response of RenderSpec
MaxItems == 2

\* characters in a key of RenderSpec
MaxKeyLen == 4

-----------------------------------------------------------------------------
(* JavaScript values *)

\* null / undefined are kept apart from objects by a tag field
JsNull == [jsnull |-> TRUE]

IsNull(v) == "jsnull" \in DOMAIN v

\* o.k is not undefined
Has(o, k) == k \in DOMAIN o

\* A FileList is a sequence of File objects {name, type}
BomPdf   == [name |-> "bom.pdf",   type |-> "application/pdf"]
PartsPdf == [name |-> "parts.pdf", type |-> "application/pdf"]
NotesTxt == [name |-> "notes.txt", type |-> "text/plain"]

\* file lists a change or drop event can carry
FileLists ==
    { << >>, <<BomPdf>>, <<PartsPdf, NotesTxt>>, <<NotesTxt, BomPdf>> }

\* currentFiles is null or a FileList
NoFiles == [set |-> FALSE, list |-> << >>]

SomeFiles(files) == [set |-> TRUE, list |-> files]

\* the options of the #bomType select; the first is the default
BomTypes == <<"simple", "engineering">>

Placeholder == "Choose PDF file or drag & drop"

-----------------------------------------------------------------------------
(* Text.  JSON strings are sequences of one-character strings, so that the *)
(* character-level functions below are computed; DOM text is a string.     *)

RECURSIVE Join(_)
\* the JavaScript string made of the characters cs
Join(cs) == IF cs = << >> THEN "" ELSE Head(cs) \o Join(Tail(cs))

LowerCase == <<"a","b","c","d","e","f","g","h","i","j","k","l","m",
               "n","o","p","q","r","s","t","u","v","w","x","y","z">>

UpperCase == <<"A","B","C","D","E","F","G","H","I","J","K","L","M",
               "N","O","P","Q","R","S","T","U","V","W","X","Y","Z">>

\* String.prototype.toUpperCase on one character
UpperChar(c) ==
    IF \E i \in 1..Len(LowerCase) : LowerCase[i] = c
    THEN UpperCase[CHOOSE i \in 1..Len(LowerCase) : LowerCase[i] = c]
    ELSE c

\* String.prototype.toUpperCase
ToUpperCase(cs) == [i \in 1..Len(cs) |-> UpperChar(cs[i])]

DigitChars == <<"0","1","2","3","4","5","6","7","8","9">>

RECURSIVE NatToChars(_)
\* Number.prototype.toString for a natural number
NatToChars(n) ==
    IF n < 10 THEN << DigitChars[n + 1] >>
    ELSE NatToChars(n \div 10) \o << DigitChars[(n % 10) + 1] >>

\* String(n) for an integer
NumToChars(n) == IF n < 0 THEN <<"-">> \o NatToChars(0 - n) ELSE NatToChars(n)

\* JSON scalars: [num |-> n], [str |-> characters], [bool |-> b], JsNull
\* String(value), main.js:144
String(value) ==
    IF IsNull(value) THEN <<"n","u","l","l">>
    ELSE IF Has(value, "num") THEN NumToChars(value.num)
    ELSE IF Has(value, "bool")
         THEN (IF value.bool THEN <<"t","r","u","e">> ELSE <<"f","a","l","s","e">>)
    ELSE value.str

\* the operand of || is truthy
Truthy(value) ==
    IF IsNull(value) THEN FALSE
    ELSE IF Has(value, "num") THEN value.num # 0
    ELSE IF Has(value, "bool") THEN value.bool
    ELSE value.str # << >>

-----------------------------------------------------------------------------
(* Table rendering, main.js:125-164 *)

\* the serialisation of one character of a text node (div.innerHTML)
EscapeChar(c) ==
    CASE c = "&" -> "&amp;"
      [] c = "<" -> "&lt;"
      [] c = ">" -> "&gt;"
      [] OTHER   -> c

\* the text handed back as it came
escapeHtml_raw(text) == Join(text)

RECURSIVE escapeHtml(_)
\* main.js:160-164
escapeHtml(text) ==
    IF text = << >> THEN "" ELSE EscapeChar(Head(text)) \o escapeHtml(Tail(text))

RECURSIVE Split(_, _)
\* key.split(sep): the segments of cs between occurrences of sep
Split(cs, sep) ==
    IF \A i \in 1..Len(cs) : cs[i] # sep THEN << cs >>
    ELSE LET i == CHOOSE j \in 1..Len(cs) :
                      cs[j] = sep /\ \A k \in 1..(j - 1) : cs[k] # sep
         IN  << SubSeq(cs, 1, i - 1) >> \o Split(SubSeq(cs, i + 1, Len(cs)), sep)

\* word.toUpperCase() in place of line 156
Capitalize_whole(word) == ToUpperCase(word)

\* word.charAt(0).toUpperCase() + word.slice(1), main.js:156
Capitalize(word) ==
    IF word = << >> THEN << >> ELSE << UpperChar(word[1]) >> \o Tail(word)

RECURSIVE JoinWords(_, _)
\* words.join(sep)
JoinWords(words, sep) ==
    IF words = << >> THEN << >>
    ELSE IF Len(words) = 1 THEN words[1]
    ELSE words[1] \o << sep >> \o JoinWords(Tail(words), sep)

\* main.js:153-158
formatHeader(key) ==
    LET words == Split(key, "_")
    IN  JoinWords([i \in 1..Len(words) |-> Capitalize(words[i])], " ")

\* A record is a sequence of <<key, value>> pairs, in the order of its keys
\* Object.keys(item)
Keys(item) == [i \in 1..Len(item) |-> item[i][1]]

\* item[key] is neither null nor undefined, main.js:143
Present(item, key) ==
    \E i \in 1..Len(item) : item[i][1] = key /\ ~IsNull(item[i][2])

\* item[key]
Get(item, key) == item[CHOOSE i \in 1..Len(item) : item[i][1] = key][2]

\* the text of one cell, main.js:143-144
CellText(item, key) ==
    IF Present(item, key) THEN String(Get(item, key)) ELSE <<"-">>

RECURSIVE HeaderCells(_)
\* main.js:135-137
HeaderCells(keys) ==
    IF keys = << >> THEN ""
    ELSE "<th>" \o Join(formatHeader(Head(keys))) \o "</th>" \o HeaderCells(Tail(keys))

RECURSIVE RowCells(_, _)
\* main.js:142-145
RowCells(item, keys) ==
    IF keys = << >> THEN ""
    ELSE "<td>" \o escapeHtml(CellText(item, Head(keys))) \o "</td>"
         \o RowCells(item, Tail(keys))

RECURSIVE Rows(_, _)
\* main.js:140-147
Rows(items, keys) ==
    IF items = << >> THEN ""
    ELSE "<tr>" \o RowCells(Head(items), keys) \o "</tr>" \o Rows(Tail(items), keys)

\* createTable taking the columns from the last record
createTable_lastKeys(items) ==
    IF Len(items) = 0 THEN "<p>No items found</p>"
    ELSE LET keys == Keys(items[Len(items)])
         IN  "<table><thead><tr>" \o HeaderCells(keys) \o "</tr></thead><tbody>"
             \o Rows(items, keys) \o "</tbody></table>"

\* main.js:125-151: the markup assigned to #dataTable.innerHTML
createTable(items) ==
    IF Len(items) = 0 THEN "<p>No items found</p>"
    ELSE LET keys == Keys(items[1])
         IN  "<table><thead><tr>" \o HeaderCells(keys) \o "</tr></thead><tbody>"
             \o Rows(items, keys) \o "</tbody></table>"

-----------------------------------------------------------------------------
(* The page: everything the listeners read or write, as one record *)

Page ==
    [ currentFiles   |-> currentFiles,   fileName       |-> fileName,
      hasFile        |-> hasFile,        dragOver       |-> dragOver,
      uploadSection  |-> uploadSection,  resultsSection |-> resultsSection,
      errorSection   |-> errorSection,   errorMessage   |-> errorMessage,
      submitDisabled |-> submitDisabled, btnText        |-> btnText,
      btnLoader      |-> btnLoader,      totalItems     |-> totalItems,
      bomTypeDisplay |-> bomTypeDisplay, documentTitle  |-> documentTitle,
      dataTable      |-> dataTable,      downloadJson   |-> downloadJson,
      downloadCsv    |-> downloadCsv,    bomType        |-> bomType,
      fileInput      |-> fileInput,      pending        |-> pending ]

\* the page after a listener has run is q (bound once, then written out)
Becomes(q) ==
    \E p \in {q} :
    /\ currentFiles' = p.currentFiles     /\ fileName' = p.fileName
    /\ hasFile' = p.hasFile               /\ dragOver' = p.dragOver
    /\ uploadSection' = p.uploadSection   /\ resultsSection' = p.resultsSection
    /\ errorSection' = p.errorSection     /\ errorMessage' = p.errorMessage
    /\ submitDisabled' = p.submitDisabled /\ btnText' = p.btnText
    /\ btnLoader' = p.btnLoader           /\ totalItems' = p.totalItems
    /\ bomTypeDisplay' = p.bomTypeDisplay /\ documentTitle' = p.documentTitle
    /\ dataTable' = p.dataTable           /\ downloadJson' = p.downloadJson
    /\ downloadCsv' = p.downloadCsv       /\ bomType' = p.bomType
    /\ fileInput' = p.fileInput           /\ pending' = p.pending

\* showError without line 169
showError_keepsUpload(p, message) ==
    [p EXCEPT !.errorSection = "block", !.errorMessage = message,
              !.resultsSection = "none"]

\* main.js:166-171
showError(p, message) ==
    [p EXCEPT !.errorSection = "block", !.errorMessage = message,
              !.uploadSection = "none", !.resultsSection = "none"]

\* main.js:173-175
hideError(p) == [p EXCEPT !.errorSection = "none"]

\* setLoading without line 97
setLoading_staysDisabled(p, loading) ==
    IF loading
    THEN [p EXCEPT !.btnText = "none", !.btnLoader = "flex", !.submitDisabled = TRUE]
    ELSE [p EXCEPT !.btnText = "block", !.btnLoader = "none"]

\* main.js:86-99
setLoading(p, loading) ==
    IF loading
    THEN [p EXCEPT !.btnText = "none", !.btnLoader = "flex", !.submitDisabled = TRUE]
    ELSE [p EXCEPT !.btnText = "block", !.btnLoader = "none", !.submitDisabled = FALSE]

\* resetForm that also puts the submit button back
resetForm_enablesSubmit(p) ==
    [p EXCEPT !.uploadSection = "block", !.resultsSection = "none",
              !.errorSection = "none",
              !.bomType = BomTypes[1], !.fileInput = << >>,
              !.fileName = Placeholder, !.hasFile = FALSE,
              !.currentFiles = NoFiles,
              !.submitDisabled = FALSE, !.btnText = "block", !.btnLoader = "none"]

\* resetForm without line 184
resetForm_keepsSelection(p) ==
    [p EXCEPT !.uploadSection = "block", !.resultsSection = "none",
              !.errorSection = "none",
              !.bomType = BomTypes[1], !.fileInput = << >>,
              !.fileName = Placeholder, !.hasFile = FALSE]

\* resetForm that aborts the request in flight
resetForm_abortsRequest(p) ==
    [p EXCEPT !.uploadSection = "block", !.resultsSection = "none",
              !.errorSection = "none",
              !.bomType = BomTypes[1], !.fileInput = << >>,
              !.fileName = Placeholder, !.hasFile = FALSE,
              !.currentFiles = NoFiles,
              !.pending = << >>,
              !.submitDisabled = FALSE, !.btnText = "block", !.btnLoader = "none"]

\* main.js:177-185; uploadForm.reset() puts the form controls back to their
\* defaults and leaves every other property of the page alone
resetForm(p) ==
    [p EXCEPT !.uploadSection = "block", !.resultsSection = "none",
              !.errorSection = "none",
              !.bomType = BomTypes[1], !.fileInput = << >>,
              !.fileName = Placeholder, !.hasFile = FALSE,
              !.currentFiles = NoFiles]

\* handleFileSelect that records the selection before it looks at the type
handleFileSelect_recordsFirst(p, files) ==
    IF Len(files) > 0
    THEN LET file == files[1]
             q == [p EXCEPT !.currentFiles = SomeFiles(files),
                            !.fileName = file.name, !.hasFile = TRUE]
         IN  IF file.type = "application/pdf" THEN q
             ELSE showError(q, "Please select a PDF file")
    ELSE p

\* handleFileSelect without line 42
handleFileSelect_noMarker(p, files) ==
    IF Len(files) > 0
    THEN LET file == files[1]
         IN  IF file.type = "application/pdf"
             THEN [p EXCEPT !.currentFiles = SomeFiles(files),
                            !.fileName = file.name]
             ELSE showError(p, "Please select a PDF file")
    ELSE p

\* main.js:36-47
handleFileSelect(p, files) ==
    IF Len(files) > 0
    THEN LET file == files[1]
         IN  IF file.type = "application/pdf"
             THEN [p EXCEPT !.currentFiles = SomeFiles(files),
                            !.fileName = file.name, !.hasFile = TRUE]
             ELSE showError(p, "Please select a PDF file")
    ELSE p

\* how a change or drop listener ended
SelectOutcome(files) ==
    IF Len(files) = 0 THEN "empty"
    ELSE IF files[1].type = "application/pdf" THEN "accepted" ELSE "rejected"

-----------------------------------------------------------------------------
(* Result display, main.js:101-123.  A step that throws leaves the writes  *)
(* made before it in place.                                                *)

\* the message of the TypeError raised by reading property prop of undefined
TypeErrorMessage(prop) ==
    "Cannot read properties of undefined (reading '" \o prop \o "')"

\* the same for a property of null
NullErrorMessage(prop) ==
    "Cannot read properties of null (reading '" \o prop \o "')"

Thrown(p, message) == [page |-> p, thrown |-> TRUE, message |-> message]

Returned(p) == [page |-> p, thrown |-> FALSE, message |-> ""]

\* the click handler installed on a download button closes over files
Handler(files) == [files |-> files]

\* ${files.json}, ${files.csv}: the property converted to a string
FileId(files, format) == IF Has(files, format) THEN files[format] ELSE "undefined"

\* main.js:117-122: what a click on a download button does: the onclick
\* property holds one handler, which assigns window.location.href once, or
\* throws a TypeError when files is undefined.  The target is a download, so
\* the page stays loaded.
Click(handler, format) ==
    IF IsNull(handler.files) THEN << >>
    ELSE << "/download/" \o format \o "/" \o FileId(handler.files, format) >>

\* lines 117-122 as a binding that leaves an installed handler in place
bindDownloads_once(p, files) ==
    [p EXCEPT !.downloadJson = IF IsNull(@) THEN Handler(files) ELSE @,
              !.downloadCsv = IF IsNull(@) THEN Handler(files) ELSE @]

\* main.js:117-122: both onclick properties are assigned
bindDownloads(p, files) ==
    [p EXCEPT !.downloadJson = Handler(files), !.downloadCsv = Handler(files)]

\* history: the number of results displayResults has rendered so far and the
\* files of the latest of them
NoResult == [count |-> 0, files |-> JsNull]

Result(result, count) ==
    [count |-> count,
     files |-> IF Has(result, "files") THEN result.files ELSE JsNull]

\* main.js:109
TotalItemsText(data) ==
    IF Has(data, "total_items") /\ Truthy(data.total_items)
    THEN Join(String(data.total_items))
    ELSE Join(NumToChars(Len(data.items)))

\* main.js:111
DocumentTitleText(data) ==
    IF Has(data, "document_title") /\ data.document_title # << >>
    THEN Join(data.document_title)
    ELSE "BOM Document"

displayResults(p, result) ==
    LET files == IF Has(result, "files") THEN result.files ELSE JsNull
        p1 == [p EXCEPT !.uploadSection = "none", !.resultsSection = "block"]
    IN  IF ~Has(result, "data") THEN Thrown(p1, TypeErrorMessage("total_items"))
        ELSE
        LET data == result.data
            needsLength == ~(Has(data, "total_items") /\ Truthy(data.total_items))
        IN  IF needsLength /\ ~Has(data, "items")
            THEN Thrown(p1, TypeErrorMessage("length"))
            ELSE
            LET p2 == [p1 EXCEPT !.totalItems = TotalItemsText(data)]
            IN  IF ~Has(data, "bom_type")
                THEN Thrown(p2, TypeErrorMessage("toUpperCase"))
                ELSE
                LET p3 == [p2 EXCEPT
                             !.bomTypeDisplay = Join(ToUpperCase(data.bom_type)),
                             !.documentTitle = DocumentTitleText(data)]
                IN  IF ~Has(data, "items")
                    THEN Thrown(p3, TypeErrorMessage("length"))
                    ELSE Returned(bindDownloads(
                             [p3 EXCEPT !.dataTable = createTable(data.items)],
                             files))

-----------------------------------------------------------------------------
(* Responses of POST /upload *)

Chars_part == <<"p","a","r","t">>
Chars_qty == <<"q","t","y">>
Chars_R1 == <<"R","1">>
Chars_simple == <<"s","i","m","p","l","e">>
Chars_engineering == <<"e","n","g","i","n","e","e","r","i","n","g">>
Chars_UnreadablePdf == <<"U","n","r","e","a","d","a","b","l","e"," ","P","D","F">>
Chars_Title == <<"B","O","M"," ","<","A",">">>

\* {success:true, data:{items:[{part:"R1",qty:10}], bom_type:"simple"},
\*  files:{json:"a1",csv:"a1"}}
OneRow ==
    [ success |-> TRUE,
      data    |-> [ items    |-> << << <<Chars_part, [str |-> Chars_R1]>>,
                                       <<Chars_qty, [num |-> 10]>> >> >>,
                    bom_type |-> Chars_simple ],
      files   |-> [json |-> "a1", csv |-> "a1"] ]

\* {success:true, data:{items:[], total_items:0, bom_type:"engineering",
\*  document_title:"BOM <A>"}, files:{json:"b2",csv:"c3"}}
NoRows ==
    [ success |-> TRUE,
      data    |-> [ items          |-> << >>,
                    total_items    |-> [num |-> 0],
                    bom_type       |-> Chars_engineering,
                    document_title |-> Chars_Title ],
      files   |-> [json |-> "b2", csv |-> "c3"] ]

\* success bodies that do not have the agreed shape
\* {success:true, data:{items:[{part:"R1",qty:10}], total_items:0,
\*  bom_type:"simple"}, files:{json:"a1",csv:"a1"}}
ZeroTotal == [OneRow EXCEPT !.data = [ items       |-> OneRow.data.items,
                                       total_items |-> [num |-> 0],
                                       bom_type    |-> Chars_simple ]]

NoData == [success |-> TRUE]

NoBomType == [ success |-> TRUE, data |-> [items |-> << >>],
               files |-> [json |-> "d4", csv |-> "d4"] ]

\* failure bodies
Unreadable == [success |-> FALSE, error |-> Chars_UnreadablePdf]

NoMessage == [success |-> FALSE]

\* {success:false, error:""}
EmptyMessage == [success |-> FALSE, error |-> << >>]

\* the bodies response.json() can resolve with
ResultBodies ==
    { OneRow, NoRows, ZeroTotal, NoData, NoBomType, Unreadable, NoMessage,
      EmptyMessage, JsNull }

\* data has the shape {items, total_items?, bom_type, document_title?}
WellFormedData(data) == Has(data, "items") /\ Has(data, "bom_type")

\* a success response of the agreed shape: HTTP ok, success true, data and files
WellFormedSuccess(ok, result) ==
    /\ ok
    /\ ~IsNull(result)
    /\ Has(result, "success") /\ result.success
    /\ Has(result, "data") /\ WellFormedData(result.data)
    /\ Has(result, "files")

-----------------------------------------------------------------------------
(* The submit listener, main.js:50-84 *)

\* line 53 without the null test
NoSelection_emptyOnly(files) == files.set /\ Len(files.list) = 0

\* main.js:53
NoSelection(files) == ~files.set \/ Len(files.list) = 0

\* a suspended invocation of the listener: the await it waits at, response.ok
\* once fetch has resolved, and (history) whether resetForm ran since the
\* request was sent.  formData is not read again after the call of fetch.
Request ==
    [pc |-> "fetch", ok |-> FALSE, stale |-> FALSE]

\* line 77 without result.error
tryBody_genericMessage(p, ok, result) ==
    IF IsNull(result)
    THEN Thrown(p, NullErrorMessage(IF ok THEN "success" ELSE "error"))
    ELSE IF ok /\ Has(result, "success") /\ result.success
    THEN displayResults(p, result)
    ELSE Returned(showError(p, "An error occurred during extraction"))

\* main.js:74-78
tryBody(p, ok, result) ==
    IF IsNull(result)
    THEN Thrown(p, NullErrorMessage(IF ok THEN "success" ELSE "error"))
    ELSE IF ok /\ Has(result, "success") /\ result.success
    THEN displayResults(p, result)
    ELSE Returned(showError(p,
             IF Has(result, "error") /\ result.error # << >>
             THEN Join(result.error)
             ELSE "An error occurred during extraction"))

\* line 80 without error.message
catchFinally_noDetail(p, message) ==
    setLoading(showError(p, "Network error: "), FALSE)

\* main.js:79-83: catch, then finally
catchFinally(p, message) ==
    setLoading(showError(p, "Network error: " \o message), FALSE)

\* lines 72-83 with setLoading(false) in the catch and not in a finally
onBody_noFinally(p, ok, result) ==
    LET r == tryBody(p, ok, result)
    IN  IF r.thrown THEN catchFinally(r.page, r.message)
        ELSE r.page

\* main.js:72-83: from the parsed body to the end of the listener
onBody(p, ok, result) ==
    LET r == tryBody(p, ok, result)
    IN  IF r.thrown THEN catchFinally(r.page, r.message)
        ELSE setLoading(r.page, FALSE)

\* how the listener ended for this body
BodyOutcome(p, ok, result) ==
    IF tryBody(p, ok, result).thrown THEN "thrown"
    ELSE IF ~IsNull(result) /\ ok /\ Has(result, "success") /\ result.success
    THEN "success"
    ELSE "serverFailure"

RemoveAt(seq, i) == SubSeq(seq, 1, i - 1) \o SubSeq(seq, i + 1, Len(seq))

\* history of the listener that ran last: which one, how it ended and, for a
\* response, response.ok and the parsed body it was given, or the message of
\* the error the awaited promise rejected with, or, for a click on a download
\* button, the values assigned to window.location.href in order
Event(event, outcome) ==
    [event |-> event, outcome |-> outcome, wellFormed |-> FALSE, stale |-> FALSE,
     parsed |-> FALSE, ok |-> FALSE, body |-> JsNull, detail |-> "",
     hrefs |-> << >>]

-----------------------------------------------------------------------------
(* The page as loaded: the upload section shown, the other two hidden, no  *)
(* selection, the submit control enabled, nothing rendered, nothing sent.  *)

Init ==
    /\ currentFiles = NoFiles
    /\ fileName = Placeholder
    /\ hasFile = FALSE
    /\ dragOver = FALSE
    /\ uploadSection = "block"
    /\ resultsSection = "none"
    /\ errorSection = "none"
    /\ errorMessage = ""
    /\ submitDisabled = FALSE
    /\ btnText = "block"
    /\ btnLoader = "none"
    /\ totalItems = ""
    /\ bomTypeDisplay = ""
    /\ documentTitle = ""
    /\ dataTable = ""
    /\ downloadJson = JsNull
    /\ downloadCsv = JsNull
    /\ bomType = BomTypes[1]
    /\ fileInput = << >>
    /\ pending = << >>
    /\ last = Event("load", "none")
    /\ nRequests = 0
    /\ nSubmitsWithFile = 0
    /\ displayed = NoResult

-----------------------------------------------------------------------------
(* Listeners *)

\* main.js:16-18: the picker's selection changed to files
Change ==
    \E files \in FileLists :
        /\ Becomes(handleFileSelect([Page EXCEPT !.fileInput = files], files))
        /\ last' = Event("change", SelectOutcome(files))
        /\ UNCHANGED << nRequests, nSubmitsWithFile, displayed >>

\* main.js:21-24
DragOver ==
    /\ Becomes([Page EXCEPT !.dragOver = TRUE])
    /\ last' = Event("dragover", "none")
    /\ UNCHANGED << nRequests, nSubmitsWithFile, displayed >>

\* main.js:26-28
DragLeave ==
    /\ Becomes([Page EXCEPT !.dragOver = FALSE])
    /\ last' = Event("dragleave", "none")
    /\ UNCHANGED << nRequests, nSubmitsWithFile, displayed >>

\* the drop listener without line 32
Drop_keepsHighlight ==
    \E files \in FileLists :
        /\ Becomes(handleFileSelect(Page, files))
        /\ last' = Event("drop", SelectOutcome(files))
        /\ UNCHANGED << nRequests, nSubmitsWithFile, displayed >>

\* main.js:30-34
Drop ==
    \E files \in FileLists :
        /\ Becomes(handleFileSelect([Page EXCEPT !.dragOver = FALSE], files))
        /\ last' = Event("drop", SelectOutcome(files))
        /\ UNCHANGED << nRequests, nSubmitsWithFile, displayed >>

\* the user picks another processing mode in the form; no listener runs
SelectBomType ==
    \E i \in 1..Len(BomTypes) :
        /\ BomTypes[i] # bomType
        /\ Becomes([Page EXCEPT !.bomType = BomTypes[i]])
        /\ UNCHANGED last
        /\ UNCHANGED << nRequests, nSubmitsWithFile, displayed >>

\* error.message of the TypeError fetch rejects with (it differs by browser)
TransportDetails == {"Failed to fetch", "Load failed"}

\* error.message of the SyntaxError response.json() rejects with
SyntaxErrorMessage == "Unexpected token '<'"

\* history: the submit event finds a file selected
HasFileSelected == currentFiles.set /\ Len(currentFiles.list) > 0

\* main.js:50-70: the listener up to its first await.  A disabled submit
\* button submits nothing, so the event needs the control enabled.
Submit ==
    /\ ~submitDisabled
    /\ UNCHANGED displayed
    /\ HasFileSelected => nSubmitsWithFile < MaxSubmits
    /\ nSubmitsWithFile' = nSubmitsWithFile + (IF HasFileSelected THEN 1 ELSE 0)
    /\ IF NoSelection(currentFiles)
       THEN /\ Becomes(showError(Page, "Please select a file"))
            /\ last' = Event("submit", "noSelection")
            /\ UNCHANGED nRequests
       ELSE IF ~currentFiles.set
       THEN \* currentFiles[0] of null: the listener ends in a TypeError
            /\ Becomes(Page)
            /\ last' = Event("submit", "thrown")
            /\ UNCHANGED nRequests
       ELSE /\ nRequests < MaxSubmits
            /\ LET p == hideError(setLoading(Page, TRUE))
               IN  Becomes([p EXCEPT !.pending = Append(@, Request)])
            /\ last' = Event("submit", "requestIssued")
            /\ nRequests' = nRequests + 1

\* main.js:67-72: fetch resolved with a response; the listener goes on to
\* await response.json()
FetchResolves ==
    \E i \in 1..Len(pending), ok \in BOOLEAN :
        /\ pending[i].pc = "fetch"
        /\ Becomes([Page EXCEPT !.pending[i].pc = "json", !.pending[i].ok = ok])
        /\ last' = Event("fetch", "resolved")
        /\ UNCHANGED << nRequests, nSubmitsWithFile, displayed >>

\* main.js:67, 79-83: fetch rejected (the request did not reach the server
\* or no response came back)
FetchRejects ==
    \E i \in 1..Len(pending), detail \in TransportDetails :
        /\ pending[i].pc = "fetch"
        /\ Becomes(catchFinally([Page EXCEPT !.pending = RemoveAt(@, i)], detail))
        /\ last' = [Event("response", "transportFailure")
                        EXCEPT !.stale = pending[i].stale, !.detail = detail]
        /\ UNCHANGED << nRequests, nSubmitsWithFile, displayed >>

\* main.js:72-83: the body of request i parsed as JSON to result
BodyParsedAs(i, result) ==
    /\ pending[i].pc = "json"
    /\ LET ok == pending[i].ok
           p == [Page EXCEPT !.pending = RemoveAt(@, i)]
       IN  /\ Becomes(onBody(p, ok, result))
           /\ last' = [Event("response", BodyOutcome(p, ok, result))
                           EXCEPT !.wellFormed = WellFormedSuccess(ok, result),
                                  !.stale = pending[i].stale,
                                  !.parsed = TRUE, !.ok = ok, !.body = result]
           /\ displayed' = IF BodyOutcome(p, ok, result) = "success"
                           THEN Result(result, displayed.count + 1) ELSE displayed
    /\ UNCHANGED << nRequests, nSubmitsWithFile >>

BodyParsed ==
    \E i \in 1..Len(pending), result \in ResultBodies : BodyParsedAs(i, result)

\* main.js:72, 79-83: the body is not JSON and response.json() rejected
BodyUnparsable ==
    \E i \in 1..Len(pending) :
        /\ pending[i].pc = "json"
        /\ Becomes(catchFinally([Page EXCEPT !.pending = RemoveAt(@, i)],
                                SyntaxErrorMessage))
        /\ last' = [Event("response", "thrown")
                        EXCEPT !.stale = pending[i].stale, !.ok = pending[i].ok,
                               !.detail = SyntaxErrorMessage]
        /\ UNCHANGED << nRequests, nSubmitsWithFile, displayed >>

\* history: every request still waiting was sent before this reset
MarkStale(p) ==
    [p EXCEPT !.pending = [i \in 1..Len(@) |-> [@[i] EXCEPT !.stale = TRUE]]]

\* main.js:188
NewUploadClick ==
    /\ Becomes(MarkStale(resetForm(Page)))
    /\ last' = Event("reset", "newUpload")
    /\ UNCHANGED << nRequests, nSubmitsWithFile, displayed >>

\* main.js:189
RetryClick ==
    /\ Becomes(MarkStale(resetForm(Page)))
    /\ last' = Event("reset", "retry")
    /\ UNCHANGED << nRequests, nSubmitsWithFile, displayed >>

\* main.js:117-119: a click on the "download JSON" button once a handler is
\* installed (before that the click does nothing)
DownloadJsonClick ==
    /\ ~IsNull(downloadJson)
    /\ Becomes(Page)
    /\ last' = [Event("downloadJson", IF Click(downloadJson, "json") = << >>
                                      THEN "thrown" ELSE "navigated")
                    EXCEPT !.hrefs = Click(downloadJson, "json")]
    /\ UNCHANGED << nRequests, nSubmitsWithFile, displayed >>

\* main.js:120-122
DownloadCsvClick ==
    /\ ~IsNull(downloadCsv)
    /\ Becomes(Page)
    /\ last' = [Event("downloadCsv", IF Click(downloadCsv, "csv") = << >>
                                     THEN "thrown" ELSE "navigated")
                    EXCEPT !.hrefs = Click(downloadCsv, "csv")]
    /\ UNCHANGED << nRequests, nSubmitsWithFile, displayed >>

-----------------------------------------------------------------------------
(* Specifications *)

\* every listener may run whenever its event can be dispatched
Next ==
    \/ Change
    \/ DragOver
    \/ DragLeave
    \/ Drop
    \/ SelectBomType
    \/ Submit
    \/ FetchResolves
    \/ FetchRejects
    \/ BodyParsed
    \/ BodyUnparsable
    \/ NewUploadClick
    \/ RetryClick
    \/ DownloadJsonClick
    \/ DownloadCsvClick

Spec == Init /\ [][Next]_vars

\* A control inside a section with display none receives no user event.
\* The form with its picker, drop target, mode select and submit button is
\* in the upload section, the "new upload" button in the results section
\* and the "retry" button in the error section.
UploadControls == uploadSection # "none"

ResultsControls == resultsSection # "none"

ErrorControls == errorSection # "none"

UINext ==
    \/ UploadControls /\ Change
    \/ UploadControls /\ DragOver
    \/ UploadControls /\ DragLeave
    \/ UploadControls /\ Drop
    \/ UploadControls /\ SelectBomType
    \/ UploadControls /\ Submit
    \/ FetchResolves
    \/ FetchRejects
    \/ BodyParsed
    \/ BodyUnparsable
    \/ ResultsControls /\ NewUploadClick
    \/ ErrorControls /\ RetryClick
    \/ ResultsControls /\ DownloadJsonClick
    \/ ResultsControls /\ DownloadCsvClick

UISpec == Init /\ [][UINext]_vars

-----------------------------------------------------------------------------
(* Rendering: one response to one request, over many item lists *)

\* records of a response: both orders of the keys, a key of the first record
\* missing, a key the first record lacks, null, 0, false, the empty string,
\* text with markup characters, a record without keys
Chars_unit_cost == <<"u","n","i","t","_","c","o","s","t">>

Records ==
    { << <<Chars_part, [str |-> Chars_R1]>>, <<Chars_qty, [num |-> 10]>> >>,
      << <<Chars_qty, [num |-> 0]>>,
         <<Chars_part, [str |-> <<"<","s","c","r","i","p","t",">">>]>> >>,
      << <<Chars_part, JsNull>>, <<Chars_unit_cost, [str |-> <<"a","&","b">>]>> >>,
      << <<Chars_unit_cost, [bool |-> FALSE]>>, <<Chars_part, [str |-> << >>]>> >>,
      << >> }

ItemLists == UNION { [1..n -> Records] : n \in 0..MaxItems }

\* data.total_items: absent, or a number
Totals == { JsNull, [num |-> 0], [num |-> 3], [num |-> 12] }

RenderBody(items, total) ==
    [ success |-> TRUE,
      data    |-> IF IsNull(total)
                  THEN [items |-> items, bom_type |-> Chars_simple]
                  ELSE [items |-> items, total_items |-> total,
                        bom_type |-> Chars_simple],
      files   |-> [json |-> "a1", csv |-> "a1"] ]

\* keys of a record: lower case, upper case, the separator, a digit
KeyAlphabet == {"q", "T", "_", "1"}

KeyStrings == UNION { [1..n -> KeyAlphabet] : n \in 0..MaxKeyLen }

HeaderBody(key) == RenderBody(<< << <<key, [num |-> 1]>> >> >>, JsNull)

\* bom.pdf was selected and submitted, and fetch resolved with HTTP 200: the
\* listener awaits response.json()
AwaitingBody ==
    /\ currentFiles = SomeFiles(<<BomPdf>>)
    /\ fileName = BomPdf.name
    /\ hasFile = TRUE
    /\ dragOver = FALSE
    /\ uploadSection = "block"
    /\ resultsSection = "none"
    /\ errorSection = "none"
    /\ errorMessage = ""
    /\ submitDisabled = TRUE
    /\ btnText = "none"
    /\ btnLoader = "flex"
    /\ totalItems = ""
    /\ bomTypeDisplay = ""
    /\ documentTitle = ""
    /\ dataTable = ""
    /\ downloadJson = JsNull
    /\ downloadCsv = JsNull
    /\ bomType = BomTypes[1]
    /\ fileInput = <<BomPdf>>
    /\ pending = << [Request EXCEPT !.pc = "json", !.ok = TRUE] >>
    /\ last = Event("fetch", "resolved")
    /\ nRequests = 1
    /\ nSubmitsWithFile = 1
    /\ displayed = NoResult

\* main.js:72-83 for a body with the item list items
RenderItems ==
    \E items \in ItemLists, total \in Totals :
        /\ pending # << >>
        /\ BodyParsedAs(1, RenderBody(items, total))

\* main.js:72-83 for a body with one record whose one key is key
RenderHeader ==
    \E key \in KeyStrings :
        /\ pending # << >>
        /\ BodyParsedAs(1, HeaderBody(key))

RenderNext ==
    \/ RenderItems
    \/ RenderHeader

RenderSpec == AwaitingBody /\ [][RenderNext]_vars

-----------------------------------------------------------------------------
(* Fairness *)

\* every request sent is settled by the browser: fetch resolves or rejects,
\* and the body of a response is parsed or found unparsable
Settles == FetchResolves \/ FetchRejects \/ BodyParsed \/ BodyUnparsable

LiveSpec == Init /\ [][UINext]_vars /\ WF_vars(Settles)

-----------------------------------------------------------------------------
(* Properties *)

Visible(display) == display # "none"

\* the sections shown
VisibleSections ==
    { name \in {"Upload", "Results", "Error"} :
        \/ name = "Upload" /\ Visible(uploadSection)
        \/ name = "Results" /\ Visible(resultsSection)
        \/ name = "Error" /\ Visible(errorSection) }

\* the submit control is disabled and shows the progress indicator
Loading == submitDisabled

\* C1: in every reachable state exactly one of the sections Upload, Results
\* and Error is visible.
C1_ExactlyOneVisible == Cardinality(VisibleSections) = 1

\* C2: right after a well-formed success response has been handled, Results
\* is visible and Upload and Error are hidden.
C2_SuccessShowsOnlyResults ==
    (last.event = "response" /\ last.wellFormed) => VisibleSections = {"Results"}

\* the failures of C3, by the outcome of the listener that met them
Failures == {"rejected", "noSelection", "transportFailure", "serverFailure"}

\* C3: right after a failure (invalid file type, submit without selection,
\* transport failure, failing HTTP status or success not true) has been
\* handled, Error is visible and Upload and Results are hidden.
C3_FailureShowsOnlyError ==
    last.outcome \in Failures => VisibleSections = {"Error"}

\* a server-reported failure has been handled with the server's message
C3_Witness ==
    /\ last.event = "response" /\ last.outcome = "serverFailure"
    /\ errorMessage = "Unreadable PDF"
    /\ VisibleSections = {"Error"}

\* C4: a file-select or drop event whose first file is not a PDF leaves the
\* selection, the displayed name and the has-file marker as they were, shows
\* the Error section with "Please select a PDF file" and issues no request.
C4_NonPdfRejected ==
    [][ (last'.outcome = "rejected" /\ (Change \/ Drop)) =>
            /\ currentFiles' = currentFiles
            /\ fileName' = fileName
            /\ hasFile' = hasFile
            /\ Visible(errorSection')
            /\ errorMessage' = "Please select a PDF file"
            /\ pending' = pending
            /\ nRequests' = nRequests ]_vars

\* a non-PDF was rejected while an earlier selection is still in place
C4_Witness ==
    /\ last.event \in {"change", "drop"} /\ last.outcome = "rejected"
    /\ currentFiles = SomeFiles(<<BomPdf>>)
    /\ fileName = "bom.pdf" /\ hasFile
    /\ errorMessage = "Please select a PDF file"

\* C5: a submit event with no file selected issues no request and does not
\* enter Loading; it ends with the Error section showing "Please select a
\* file".  The number of requests issued equals the number of submit events
\* that found a file selected.
C5_NoSelectionNoRequest ==
    /\ [](nRequests = nSubmitsWithFile)
    /\ [][ (~HasFileSelected /\ last'.event = "submit" /\ Submit) =>
               /\ pending' = pending
               /\ nRequests' = nRequests
               /\ ~Loading'
               /\ btnText' = btnText /\ btnLoader' = btnLoader
               /\ Visible(errorSection')
               /\ errorMessage' = "Please select a file" ]_vars

\* submit without a selection after a reset that followed a request
C5_Witness ==
    /\ last.event = "submit" /\ last.outcome = "noSelection"
    /\ nRequests > 0
    /\ errorMessage = "Please select a file"
    /\ pending = << >>

\* C6: once Loading is entered it is left when the request completes, on
\* every path (success, server failure, transport failure, exception), and
\* then the submit control is enabled and its label restored.
C6_LoadingAlwaysCleared ==
    /\ Loading ~> ~Loading
    /\ [](last.event = "response" =>
              ~submitDisabled /\ btnText = "block" /\ btnLoader = "none")

\* Loading was left through the exception path
C6_Witness ==
    /\ last.event = "response" /\ last.outcome = "thrown"
    /\ ~submitDisabled /\ btnText = "block" /\ btnLoader = "none"
    /\ pending = << >>

\* C7: at most one request is outstanding, and the submit control is
\* disabled for as long as one is.
C7_AtMostOneInFlight ==
    /\ Len(pending) <= 1
    /\ pending # << >> => submitDisabled

\* a reset ran during a request, which is still the only one outstanding
C7_Witness ==
    /\ last.event = "reset"
    /\ Len(pending) = 1 /\ pending[1].stale
    /\ submitDisabled

\* C8: Loading is entered only while Upload is the visible section, and a
\* Loading episode ends with exactly one of Results and Error visible, never
\* with Upload visible and never by entering Loading again.
C8_LoadingFromUploadToOneOutcome ==
    [][ /\ (~Loading /\ Loading') => VisibleSections = {"Upload"}
        /\ (Loading /\ ~Loading') =>
               (VisibleSections' = {"Results"} \/ VisibleSections' = {"Error"}) ]_vars

\* the state reset leaves behind, as far as C9 names it
AfterReset ==
    /\ VisibleSections = {"Upload"}
    /\ currentFiles = NoFiles
    /\ fileName = Placeholder
    /\ ~hasFile
    /\ bomType = BomTypes[1]
    /\ fileInput = << >>

\* C9: reset from Results ("start new upload") and reset from Error ("retry")
\* end in the same state: Upload visible, Results and Error hidden, selection
\* empty, placeholder name, no has-file marker, form cleared.
C9_ResetsAgree ==
    [][ (last'.event = "reset" /\ (NewUploadClick \/ RetryClick)) => AfterReset' ]_vars

\* "start new upload" was clicked after a result had been displayed
C9_Witness ==
    /\ last.event = "reset" /\ last.outcome = "newUpload"
    /\ dataTable # "" /\ nRequests > 0
    /\ AfterReset

\* C10: a reset during a request does not cancel it, and the response is
\* rendered when it arrives: Results on success, Error on failure, in place
\* of the Upload section the reset had put up.
C10_StaleResponseRendered ==
    /\ []((last.event = "response" /\ last.stale) =>
             /\ ~Visible(uploadSection)
             /\ last.outcome = "success" => Visible(resultsSection)
             /\ last.outcome # "success" => VisibleSections = {"Error"})
    /\ [][ (last'.event = "reset" /\ (NewUploadClick \/ RetryClick)) =>
               Len(pending') = Len(pending) ]_vars

\* the response to a request sent before the reset put Results over the
\* reset page, with no selection made since
C10_Witness ==
    /\ last.event = "response" /\ last.stale /\ last.outcome = "success"
    /\ currentFiles = NoFiles /\ fileName = Placeholder
    /\ VisibleSections = {"Results"}

\* the last listener handled a parsed response object that reports a failure:
\* a failing HTTP status, or success not true
FailureResponse ==
    /\ last.event = "response" /\ last.parsed /\ ~IsNull(last.body)
    /\ ~last.ok \/ ~(Has(last.body, "success") /\ last.body.success)

GenericMessage == "An error occurred during extraction"

C12_TransportFailureMessage ==
    last.outcome = "transportFailure" =>
        /\ Visible(errorSection)
        /\ errorMessage = "Network error: " \o last.detail
        /\ ~Visible(resultsSection)

\* a request failed at transport level after an earlier one had put a result
\* on the page
C12_Witness ==
    /\ last.event = "response" /\ last.outcome = "transportFailure"
    /\ last.detail = "Load failed"
    /\ errorMessage = "Network error: Load failed"
    /\ dataTable # ""
    /\ VisibleSections = {"Error"}

\* C13: once a result has been displayed, one click on a download button
\* causes exactly one navigation, to /download/json/<files.json> or
\* /download/csv/<files.csv> of the result displayed last.
C13_DownloadsLatestResult ==
    /\ (last.event = "downloadJson" /\ ~IsNull(displayed.files))
           => last.hrefs = << "/download/json/" \o displayed.files.json >>
    /\ (last.event = "downloadCsv" /\ ~IsNull(displayed.files))
           => last.hrefs = << "/download/csv/" \o displayed.files.csv >>
    /\ last.event \in {"downloadJson", "downloadCsv"} => displayed.count > 0

\* a click on "download CSV" after a second result replaced the first
C13_Witness ==
    /\ last.event = "downloadCsv"
    /\ displayed.count = 2 /\ displayed.files = NoRows.files
    /\ last.hrefs = << "/download/csv/c3" >>
    /\ VisibleSections = {"Results"}

\* C14: the total shown for a rendered result is its total_items whenever the
\* data gives one, 0 included, and the number of items only when it gives none.
C14_ExplicitTotalShown ==
    (last.event = "response" /\ last.outcome = "success") =>
        totalItems = IF Has(last.body.data, "total_items")
                     THEN Join(NumToChars(last.body.data.total_items.num))
                     ELSE Join(NumToChars(Len(last.body.data.items)))

-----------------------------------------------------------------------------
(* What the browser reads from the markup assigned to innerHTML, main.js:150 *)

RECURSIVE Before(_, _)
\* the number of characters of markup before the first c
Before(markup, c) ==
    IF markup = "" THEN 0
    ELSE IF Head(markup) = c THEN 0
    ELSE 1 + Before(Tail(markup), c)

RECURSIVE Decode(_)
\* the text of a text run: character references replaced by their characters
Decode(markup) ==
    IF markup = "" THEN ""
    ELSE IF Len(markup) >= 5 /\ SubSeq(markup, 1, 5) = "&amp;"
    THEN "&" \o Decode(SubSeq(markup, 6, Len(markup)))
    ELSE IF Len(markup) >= 4 /\ SubSeq(markup, 1, 4) = "&lt;"
    THEN "<" \o Decode(SubSeq(markup, 5, Len(markup)))
    ELSE IF Len(markup) >= 4 /\ SubSeq(markup, 1, 4) = "&gt;"
    THEN ">" \o Decode(SubSeq(markup, 5, Len(markup)))
    ELSE Head(markup) \o Decode(Tail(markup))

RECURSIVE Tokens(_)
\* the tags and the text runs of markup, in order
Tokens(markup) ==
    IF markup = "" THEN << >>
    ELSE IF Head(markup) = "<"
    THEN LET n == IF Before(markup, ">") < Len(markup)
                  THEN Before(markup, ">") + 1 ELSE Len(markup)
         IN  << [tag |-> SubSeq(markup, 1, n)] >>
             \o Tokens(SubSeq(markup, n + 1, Len(markup)))
    ELSE LET n == Before(markup, "<")
         IN  << [text |-> Decode(SubSeq(markup, 1, n))] >>
             \o Tokens(SubSeq(markup, n + 1, Len(markup)))

IsTag(token, tag) == Has(token, "tag") /\ token.tag = tag

RECURSIVE ElementTexts(_, _)
\* the text content of every element opened by tag, in order
ElementTexts(tokens, tag) ==
    IF tokens = << >> THEN << >>
    ELSE IF ~IsTag(Head(tokens), tag) THEN ElementTexts(Tail(tokens), tag)
    ELSE IF Len(tokens) >= 2 /\ Has(tokens[2], "text")
    THEN << tokens[2].text >> \o ElementTexts(Tail(Tail(tokens)), tag)
    ELSE << "" >> \o ElementTexts(Tail(tokens), tag)

RECURSIVE RowSizes(_)
\* the number of td elements in every tr element, in order
RowSizes(tokens) ==
    IF tokens = << >> THEN << >>
    ELSE IF ~IsTag(Head(tokens), "<tr>") THEN RowSizes(Tail(tokens))
    ELSE LET end == CHOOSE i \in 2..(Len(tokens) + 1) :
                        /\ i <= Len(tokens) => IsTag(tokens[i], "</tr>")
                        /\ \A j \in 2..(i - 1) : ~IsTag(tokens[j], "</tr>")
             row == SubSeq(tokens, 2, end - 1)
         IN  << Cardinality({ j \in 1..Len(row) : IsTag(row[j], "<td>") }) >>
             \o RowSizes(SubSeq(tokens, end, Len(tokens)))

\* the tokens from the tbody tag on
TableBody(tokens) ==
    IF \A i \in 1..Len(tokens) : ~IsTag(tokens[i], "<tbody>") THEN << >>
    ELSE SubSeq(tokens, CHOOSE i \in 1..Len(tokens) : IsTag(tokens[i], "<tbody>"),
                Len(tokens))

\* the tags createTable writes itself
TableTags ==
    { "<table>", "<thead>", "<tr>", "<th>", "</th>", "</tr>", "</thead>",
      "<tbody>", "<td>", "</td>", "</tbody>", "</table>", "<p>", "</p>" }

\* a success response has just been rendered by displayResults
Rendered == last.event = "response" /\ last.outcome = "success"

\* the text the claim asks for in the cell of item under key
CellShows(item, key) ==
    IF \E i \in 1..Len(item) : item[i][1] = key /\ ~IsNull(item[i][2])
    THEN Join(String(item[CHOOSE i \in 1..Len(item) : item[i][1] = key][2]))
    ELSE "-"

\* C15: in the rendered table the cell of every record under every column
\* reads "-" when the record has no value or null for it and the text of the
\* value otherwise, and no value adds a tag to the markup: markup characters
\* in a value arrive as text.
C15_CellsEscaped ==
    Rendered =>
        LET items  == last.body.data.items
            tokens == Tokens(dataTable)
        IN  /\ \A i \in 1..Len(tokens) :
                   Has(tokens[i], "tag") => tokens[i].tag \in TableTags
            /\ items # << >> =>
                   LET keys == Keys(items[1])
                       n    == Len(keys)
                   IN  ElementTexts(tokens, "<td>")
                         = [c \in 1..(Len(items) * n) |->
                               CellShows(items[((c - 1) \div n) + 1],
                                         keys[((c - 1) % n) + 1])]

\* a record whose part is "<script>" has been rendered as the second row
C15_Witness ==
    /\ Rendered
    /\ Len(last.body.data.items) = 2
    /\ last.body.data.items[2]
           = << <<Chars_qty, [num |-> 0]>>,
                <<Chars_part, [str |-> <<"<","s","c","r","i","p","t",">">>]>> >>
    /\ dataTable = "<table><thead><tr><th>Part</th><th>Qty</th></tr></thead><tbody>"
                   \o "<tr><td>R1</td><td>10</td></tr>"
                   \o "<tr><td>&lt;script&gt;</td><td>0</td></tr></tbody></table>"

HeaderShows(key) ==
    [i \in 1..Len(key) |->
        IF key[i] = "_" THEN " "
        ELSE IF i = 1 \/ key[i - 1] = "_" THEN UpperChar(key[i])
        ELSE key[i]]

\* C17: the header of a column is its key split on "_", the first letter of
\* every segment in upper case, the segments joined with single spaces;
\* "unit_cost" gives "Unit Cost", "qty" gives "Qty" and "document_title"
\* gives "Document Title".
C17_HeaderFormat ==
    /\ Rendered /\ last.body.data.items # << >> =>
           LET keys == Keys(last.body.data.items[1])
           IN  ElementTexts(Tokens(dataTable), "<th>")
                 = [k \in 1..Len(keys) |-> Join(HeaderShows(keys[k]))]
    /\ Join(formatHeader(Chars_unit_cost)) = "Unit Cost"
    /\ Join(formatHeader(Chars_qty)) = "Qty"
    /\ Join(formatHeader(<<"d","o","c","u","m","e","n","t","_","t","i","t","l","e">>))
           = "Document Title"

\* the key "q__T", with an empty segment, has been rendered as a header
C17_Witness ==
    /\ Rendered
    /\ last.body.data.items # << >>
    /\ Keys(last.body.data.items[1]) = << <<"q","_","_","T">> >>
    /\ dataTable = "<table><thead><tr><th>Q  T</th></tr></thead>"
                   \o "<tbody><tr><td>1</td></tr></tbody></table>"

\* C18: the drop target is highlighted after a dragover and not highlighted
\* after a dragleave or a drop, accepted or not, and no other listener turns
\* the highlight on: after a dragleave or drop it stays off until the next
\* dragover.
C18_HighlightOnlyWhileDragging ==
    /\ [](last.event = "dragover" => dragOver)
    /\ [](last.event \in {"dragleave", "drop"} => ~dragOver)
    /\ [][ (~dragOver /\ dragOver') => last'.event = "dragover" ]_vars

\* a text file was dropped on the target and rejected; the highlight is off
C18_Witness ==
    /\ last.event = "drop" /\ last.outcome = "rejected"
    /\ ~dragOver
    /\ Visible(errorSection) /\ errorMessage = "Please select a PDF file"

\* C19: the stored selection is non-empty exactly when the has-file marker is
\* set, and then the displayed name is the name of its first file; when it
\* is empty the displayed name is the placeholder.  Only an accepted PDF
\* selection and a reset change the selection, the marker or the name.
C19_SelectionMarkerNameAgree ==
    /\ [](HasFileSelected <=> hasFile)
    /\ [](HasFileSelected => fileName = currentFiles.list[1].name)
    /\ [](~HasFileSelected => fileName = Placeholder)
    /\ [][ (currentFiles' # currentFiles \/ hasFile' # hasFile
                \/ fileName' # fileName)
           => \/ last'.event \in {"change", "drop"} /\ last'.outcome = "accepted"
              \/ last'.event = "reset" ]_vars

\* two files were dropped while a request was in flight; the first, a PDF,
\* is the selection and the name shown
C19_Witness ==
    /\ last.event = "drop" /\ last.outcome = "accepted"
    /\ pending # << >>
    /\ currentFiles = SomeFiles(<<PartsPdf, NotesTxt>>)
    /\ hasFile /\ fileName = "parts.pdf"

\* C20: the submit control is disabled exactly when a request has been issued
\* and its response or failure has not been handled yet; a reset or a file
\* selection during the request does not enable it.
C20_DisabledIffInFlight ==
    /\ submitDisabled <=> pending # << >>
    /\ (last.event \in {"reset", "change", "drop"} /\ pending # << >>)
           => submitDisabled
    /\ (last.event = "response" /\ pending = << >>) => ~submitDisabled

\* a PDF was selected during a request, after a reset
C20_Witness ==
    /\ last.event = "change" /\ last.outcome = "accepted"
    /\ Len(pending) = 1 /\ pending[1].stale
    /\ submitDisabled /\ Visible(uploadSection)

====
